---- MODULE Spec2Model ----
(***************************************************************************)
(* Model of rmcp-core's service_traits.rs: the AtomicU32Provider identifier *)
(* provider, the DynService adapter over Service, the cancellation         *)
(* conversions required by ServiceRole, and cooperative cancellation.       *)
(***************************************************************************)
EXTENDS Integers, Naturals, Sequences, FiniteSets, TLC

VARIABLES
    \* AtomicU32Provider: the counter id; each caller's place in a call (pc),
    \* the number it fetched (tmp) and the identifiers it was handed
    \* (returned); and, for the record, the atomic steps in the order they
    \* took place (order), how often the counter has wrapped around (wraps)
    \* and how many calls the provider has served since construction (served)
    id, pc, tmp, returned, order, wraps, served,
    \* a notification value and its conversion to the canonical cancellation
    note, origin, conv,
    \* one Service driven directly (typed) and through DynService (erased)
    typed, erased,
    \* a server-role Service: its in-flight handlers and cancellation signals
    handler, flag, due, delivered

provVars == <<id, pc, tmp, returned, order, wraps, served>>
cancelVars == <<note, origin, conv>>
dynVars == <<typed, erased>>
serveVars == <<handler, flag, due, delivered>>
vars == <<provVars, cancelVars, dynVars, serveVars>>

-----------------------------------------------------------------------------
(* Bounds of the model.                                                    *)

\* number of concurrent callers sharing one provider
NumThreads == 2
\* number of fetch_add operations observed in one behaviour
MaxCalls == 4
\* how far below u32::MAX a long-lived provider's counter may start
WrapLead == 1
\* request identifiers in messages are the numbers 0 .. MaxRid and two strings
MaxRid == 1
\* peer request payloads are 0 .. MaxReq
MaxReq == 1
\* number of messages dispatched to a Service in one behaviour
MaxDispatch == 3

Threads == 1..NumThreads

-----------------------------------------------------------------------------
(* u32 arithmetic.  TLC's integers are 32-bit signed, so an unsigned 32-bit *)
(* value is kept as two 16-bit limbs [hi, lo], value = hi * 2^16 + lo.      *)

U32Bits == 32
LimbBase == 2 ^ (U32Bits \div 2)
Limb == 0..(LimbBase - 1)

IsU32(v) == v.hi \in Limb /\ v.lo \in Limb

\* the u32 holding a small natural number n (n < 2^31)
U32Of(n) == [hi |-> (n \div LimbBase) % LimbBase, lo |-> n % LimbBase]

u32_MAX == [hi |-> LimbBase - 1, lo |-> LimbBase - 1]

\* a - n for a small natural n <= LimbBase, without borrow beyond the high limb
U32Minus(a, n) ==
    IF a.lo >= n THEN [hi |-> a.hi, lo |-> a.lo - n]
    ELSE [hi |-> (a.hi + LimbBase - 1) % LimbBase, lo |-> a.lo + LimbBase - n]

U32Less(a, b) == a.hi < b.hi \/ (a.hi = b.hi /\ a.lo < b.lo)

\* Natural numbers beyond 2^31, for counting calls: the same two limbs with
\* the high limb unbounded.
NatOf(n) == [hi |-> n \div LimbBase, lo |-> n % LimbBase]

NatSucc(a) ==
    IF a.lo = LimbBase - 1 THEN [hi |-> a.hi + 1, lo |-> 0]
    ELSE [hi |-> a.hi, lo |-> a.lo + 1]

\* a - 1 for a natural number a >= 1
NatPred(a) ==
    IF a.lo = 0 THEN [hi |-> a.hi - 1, lo |-> LimbBase - 1]
    ELSE [hi |-> a.hi, lo |-> a.lo - 1]

\* a natural number reduced modulo 2^32 (the cast "as u32")
AsU32(a) == [hi |-> a.hi % LimbBase, lo |-> a.lo]

\* the natural number a u32 stands for
AsNat(v) == [hi |-> v.hi, lo |-> v.lo]

\* u32::wrapping_add: addition modulo 2^32
wrapping_add(a, b) ==
    LET lo == a.lo + b.lo
        hi == a.hi + b.hi + (lo \div LimbBase)
    IN  [hi |-> hi % LimbBase, lo |-> lo % LimbBase]

\* a plausible slip: the increment saturates at u32::MAX instead of wrapping
fetch_add_saturating(cur, val) ==
    [prev |-> cur,
     next |-> IF U32Less(wrapping_add(cur, val), cur) THEN u32_MAX
              ELSE wrapping_add(cur, val)]

\* a plausible slip: the new value is returned (add-then-fetch)
fetch_add_returns_new(cur, val) ==
    [prev |-> wrapping_add(cur, val), next |-> wrapping_add(cur, val)]

\* a plausible slip: the counter is read but never advanced (a plain load)
fetch_add_load_only(cur, val) ==
    [prev |-> cur, next |-> cur]

\* a plausible slip: the sum is not reduced modulo 2^32
fetch_add_unbounded(cur, val) ==
    LET lo == cur.lo + val.lo
    IN  [prev |-> cur,
         next |-> [hi |-> cur.hi + val.hi + (lo \div LimbBase),
                   lo |-> lo % LimbBase]]

\* AtomicU32::fetch_add(val, SeqCst): one atomic step that returns the
\* previous value and stores previous + val, wrapping around on overflow
fetch_add(cur, val) ==
    [prev |-> cur, next |-> wrapping_add(cur, val)]

-----------------------------------------------------------------------------
(* Identifier values.                                                      *)

\* NumberOrString::Number(n); RequestId is NumberOrString
NumberOrString_Number(n) == [Number |-> n]

NumberOrString_String(s) == [String |-> s]

\* a plausible slip: the token is handed out without its wrapper
ProgressToken_bare(v) == v

\* the ProgressToken(..) tuple struct around a NumberOrString
ProgressToken(v) == [ProgressToken |-> v]

Ops == {"next_request_id", "next_progress_token"}

\* the identifier each operation builds from the fetched number
Identifier(op, n) ==
    IF op = "next_request_id" THEN NumberOrString_Number(n)
    ELSE ProgressToken(NumberOrString_Number(n))

-----------------------------------------------------------------------------
(* AtomicU32Provider.                                                      *)

\* a plausible slip: the counter starts at one
Default_one == U32Of(1)

\* #[derive(Default)]: AtomicU32::default() is zero
Default_id == U32Of(0)

\* the record kept of an identifier handed out: the operation, the number
\* fetched for it, the identifier built from it, and how often the counter
\* had wrapped around before
Entry(op, n, epoch) ==
    [op |-> op, num |-> n, value |-> Identifier(op, n), epoch |-> epoch]

\* the atomic step of next_request_id / next_progress_token of caller t
Fetch(t, o) ==
    /\ pc[t] = "idle"
    /\ Len(order) < MaxCalls
    /\ LET r == fetch_add(id, U32Of(1))
       IN  /\ id' = r.next
           /\ tmp' = [tmp EXCEPT ![t] = [op |-> o, num |-> r.prev, epoch |-> wraps]]
           /\ order' = Append(order, [t |-> t, op |-> o, k |-> NatSucc(served),
                                       num |-> r.prev,
                                       value |-> Identifier(o, r.prev),
                                       after |-> r.next])
           /\ wraps' = IF U32Less(r.next, r.prev) THEN wraps + 1 ELSE wraps
    /\ served' = NatSucc(served)
    /\ pc' = [pc EXCEPT ![t] = "fetched"]
    /\ UNCHANGED returned
    /\ UNCHANGED <<cancelVars, dynVars, serveVars>>

next_request_id(t) == Fetch(t, "next_request_id")

next_progress_token(t) == Fetch(t, "next_progress_token")

\* the call returns: the fetched number wrapped as the operation's identifier
Return(t) ==
    /\ pc[t] = "fetched"
    /\ returned' = [returned EXCEPT ![t] =
                       Append(@, Entry(tmp[t].op, tmp[t].num, tmp[t].epoch))]
    /\ pc' = [pc EXCEPT ![t] = "idle"]
    /\ UNCHANGED <<id, tmp, order, wraps, served>>
    /\ UNCHANGED <<cancelVars, dynVars, serveVars>>

NoTmp == [op |-> "none", num |-> U32Of(0), epoch |-> 0]

\* a provider right after construction
InitProvider ==
    /\ id = Default_id
    /\ pc = [t \in Threads |-> "idle"]
    /\ tmp = [t \in Threads |-> NoTmp]
    /\ returned = [t \in Threads |-> <<>>]
    /\ order = <<>>
    /\ wraps = 0
    /\ served = NatOf(0)

-----------------------------------------------------------------------------
(* Cancellation convertibility (ServiceRole::Not and ServiceRole::PeerNot). *)

Roles == {"RoleClient", "RoleServer"}

\* the two notification types of each role that carry the conversion bounds
NotificationTypes == [role : Roles, side : {"Not", "PeerNot"}]

\* RequestId values that occur in messages
RequestIds ==
    {NumberOrString_Number(U32Of(i)) : i \in 0..MaxRid}
        \cup {NumberOrString_String(str) : str \in {"a", "b"}}

None == [some |-> FALSE, val |-> ""]
Some(v) == [some |-> TRUE, val |-> v]

Reasons == {None, Some("timeout"), Some("user")}

\* the canonical Cancellation Notification: request identifier and optional reason
CancelledNotification == [request_id : RequestIds, reason : Reasons]

\* the notifications of a type that are not cancellations
OtherNotifications(ty) ==
    {[type |-> ty, kind |-> "progress",
      params |-> [progress_token |-> ProgressToken(r), progress |-> n]] :
         r \in RequestIds, n \in 0..1}
        \cup {[type |-> ty, kind |-> "initialized", params |-> [unit |-> TRUE]]}

\* a slip: the reason is lost when the notification is built
From_CancelledNotification_drops_reason(ty, c) ==
    [type |-> ty, kind |-> "cancelled",
     params |-> [request_id |-> c.request_id, reason |-> None]]

\* From<CancelledNotification>: never fails
From_CancelledNotification(ty, c) ==
    [type |-> ty, kind |-> "cancelled", params |-> c]

\* every value of a notification type
Notifications(ty) ==
    {From_CancelledNotification(ty, c) : c \in CancelledNotification}
        \cup OtherNotifications(ty)

Ok(v) == [Ok |-> v]
Err(e) == [Err |-> e]

\* a slip: the failed conversion hands back an emptied notification
TryInto_CancelledNotification_lossy(n) ==
    IF n.kind = "cancelled" THEN Ok(n.params)
    ELSE Err([type |-> n.type, kind |-> n.kind, params |-> [unit |-> TRUE]])

\* TryInto<CancelledNotification, Error = Self>: the canonical notification
\* of a cancellation, and any other notification handed back as the error
TryInto_CancelledNotification(n) ==
    IF n.kind = "cancelled" THEN Ok(n.params) ELSE Err(n)

NoNote ==
    [type |-> [role |-> "none", side |-> "none"], kind |-> "none",
     params |-> [unit |-> TRUE]]
NoOrigin == [from |-> FALSE, canon |-> [unit |-> TRUE]]
NoConv == [Pending |-> TRUE]

CancelIdle ==
    /\ note = NoNote
    /\ origin = NoOrigin
    /\ conv = NoConv

\* a notification is built from a canonical Cancellation Notification
FromCanonical(ty, c) ==
    /\ note' = From_CancelledNotification(ty, c)
    /\ origin' = [from |-> TRUE, canon |-> c]
    /\ conv' = NoConv
    /\ UNCHANGED <<provVars, dynVars, serveVars>>

\* a notification of the type arrives from the peer
Arrive(ty, n) ==
    /\ note' = n
    /\ origin' = NoOrigin
    /\ conv' = NoConv
    /\ UNCHANGED <<provVars, dynVars, serveVars>>

\* the notification at hand is converted to the canonical form
TryIntoCanonical ==
    /\ note # NoNote
    /\ conv = NoConv
    /\ conv' = TryInto_CancelledNotification(note)
    /\ UNCHANGED <<note, origin>>
    /\ UNCHANGED <<provVars, dynVars, serveVars>>

NextCancel ==
    \/ \E ty \in NotificationTypes, c \in CancelledNotification : FromCanonical(ty, c)
    \/ \E ty \in NotificationTypes : \E n \in Notifications(ty) : Arrive(ty, n)
    \/ TryIntoCanonical

-----------------------------------------------------------------------------
(* Service and the DynService adapter.                                     *)

\* RequestContext: the request identifier (_marker is zero-sized)
RequestContext(rid) == [request_id |-> rid]

Reqs == 0..MaxReq

ContextIds == {NumberOrString_Number(U32Of(i)) : i \in 0..MaxRid}

ServerPeerNot == [role |-> "RoleServer", side |-> "PeerNot"]

\* the peer notifications dispatched to the Service
DispatchedNotifications ==
    {From_CancelledNotification(ServerPeerNot,
         [request_id |-> NumberOrString_Number(U32Of(0)), reason |-> None]),
     [type |-> ServerPeerNot, kind |-> "initialized", params |-> [unit |-> TRUE]]}

Unit == [unit |-> TRUE]

\* sample implementations of Service: "tally" counts the messages it has
\* handled and answers with the count; "strict" rejects odd requests and
\* unknown notifications and remembers the last request it accepted
Impls == {"tally", "strict"}

\* the body of a handling future of implementation impl in state st, run to
\* completion: its outcome and the implementation's state after it
Run(impl, st, f) ==
    IF impl = "tally" THEN
        IF f.op = "handle_request"
        THEN [out |-> Ok([echo |-> f.request, seen |-> st,
                          id |-> f.context.request_id]),
              st |-> st + 1]
        ELSE [out |-> Ok(Unit), st |-> st + 1]
    ELSE
        IF f.op = "handle_request"
        THEN IF f.request % 2 = 1
             THEN [out |-> Err([code |-> "invalid_request",
                                id |-> f.context.request_id]),
                   st |-> st]
             ELSE [out |-> Ok([echo |-> f.request, seen |-> st,
                               id |-> f.context.request_id]),
                   st |-> f.request + 1]
        ELSE IF f.notification.kind = "cancelled"
             THEN [out |-> Ok(Unit), st |-> 0]
             ELSE [out |-> Err([code |-> "method_not_found", id |-> Unit]),
                   st |-> st]

\* a Service of implementation impl before any message: its state, the
\* number of calls of its handling operations, the futures not yet awaited,
\* the outcomes of those awaited, and the last info read from it
NewService(impl) ==
    [impl |-> impl, st |-> 0, calls |-> 0, pending |-> <<>>, done |-> <<>>,
     info |-> Unit]

\* Service::handle_request: the call yields a future and runs nothing yet
Service_handle_request(w, req, ctx) ==
    [w EXCEPT !.calls = @ + 1,
              !.pending = Append(@, [op |-> "handle_request", request |-> req,
                                     context |-> ctx])]

\* Service::handle_notification
Service_handle_notification(w, n) ==
    [w EXCEPT !.calls = @ + 1,
              !.pending = Append(@, [op |-> "handle_notification",
                                     notification |-> n])]

\* Service::get_info
Service_get_info(w) == [name |-> w.impl, handles |-> {"handle_request", "handle_notification"}]

\* Box::pin(future): the same future behind a heap-allocated handle
Box_pin(f) == [boxed |-> f]

\* what awaiting a future polls: a boxed future polls the future inside
Inner(f) == IF "boxed" \in DOMAIN f THEN f.boxed ELSE f

BoxLast(w) == [w EXCEPT !.pending[Len(w.pending)] = Box_pin(@)]

\* a slip: the adapter builds a context of its own instead of passing on
\* the caller's
DynService_handle_request_fresh_context(w, req, ctx) ==
    BoxLast(Service_handle_request(w, req,
                RequestContext(NumberOrString_Number(U32Of(0)))))

\* impl DynService for S: Box::pin(self.handle_request(request, context))
DynService_handle_request(w, req, ctx) ==
    BoxLast(Service_handle_request(w, req, ctx))

\* impl DynService for S: Box::pin(self.handle_notification(notification))
DynService_handle_notification(w, n) ==
    BoxLast(Service_handle_notification(w, n))

\* impl DynService for S: self.get_info()
DynService_get_info(w) == Service_get_info(w)

\* the i-th pending future is awaited to completion
Await(w, i) ==
    LET r == Run(w.impl, w.st, Inner(w.pending[i]))
    IN  [w EXCEPT !.st = r.st,
                  !.done = Append(@, r.out),
                  !.pending = SubSeq(@, 1, i - 1) \o SubSeq(@, i + 1, Len(@))]

Dispatched(w) == Len(w.pending) + Len(w.done)

DynIdle ==
    /\ typed = NewService("tally")
    /\ erased = NewService("tally")

InitDyn ==
    \E impl \in Impls :
        /\ typed = NewService(impl)
        /\ erased = NewService(impl)

\* the same peer request is handed to the Service and to its adapter
DispatchRequest(req, rid) ==
    /\ Dispatched(typed) < MaxDispatch
    /\ typed' = Service_handle_request(typed, req, RequestContext(rid))
    /\ erased' = DynService_handle_request(erased, req, RequestContext(rid))
    /\ UNCHANGED <<provVars, cancelVars, serveVars>>

\* the same peer notification is handed to the Service and to its adapter
DispatchNotification(n) ==
    /\ Dispatched(typed) < MaxDispatch
    /\ typed' = Service_handle_notification(typed, n)
    /\ erased' = DynService_handle_notification(erased, n)
    /\ UNCHANGED <<provVars, cancelVars, serveVars>>

\* the futures of the same call are awaited on both sides
AwaitBoth(i) ==
    /\ i <= Len(typed.pending)
    /\ i <= Len(erased.pending)
    /\ typed' = Await(typed, i)
    /\ erased' = Await(erased, i)
    /\ UNCHANGED <<provVars, cancelVars, serveVars>>

\* the info is read on both sides
GetInfo ==
    /\ typed' = [typed EXCEPT !.info = Service_get_info(typed)]
    /\ erased' = [erased EXCEPT !.info = DynService_get_info(erased)]
    /\ UNCHANGED <<provVars, cancelVars, serveVars>>

NextDyn ==
    \/ \E req \in Reqs, rid \in ContextIds : DispatchRequest(req, rid)
    \/ \E n \in DispatchedNotifications : DispatchNotification(n)
    \/ \E i \in 1..MaxDispatch : AwaitBoth(i)
    \/ GetInfo

-----------------------------------------------------------------------------
(* Cooperative cancellation in a server-role Service.                      *)

ServeIds == ContextIds

\* the peer notifications a server may be handed: cancellations of the
\* requests it may be serving, and a notification of another kind
ServedNotifications ==
    {From_CancelledNotification(ServerPeerNot, [request_id |-> r, reason |-> x]) :
         r \in ServeIds, x \in {None, Some("timeout")}}
        \cup {[type |-> ServerPeerNot, kind |-> "initialized", params |-> Unit]}

NoDelivery == [note |-> NoNote, result |-> NoConv]

ServeIdle ==
    /\ handler = [r \in ServeIds |-> [phase |-> "idle", context |-> Unit]]
    /\ flag = [r \in ServeIds |-> FALSE]
    /\ due = [r \in ServeIds |-> "none"]
    /\ delivered = NoDelivery

InFlight(r) == handler[r].phase = "suspended"

\* handle_request for request r starts and runs to its first suspension point
Serve_handle_request(r) ==
    /\ ~InFlight(r)
    /\ handler' = [handler EXCEPT ![r] =
                      [phase |-> "suspended", context |-> RequestContext(r)]]
    /\ flag' = [flag EXCEPT ![r] = FALSE]
    /\ due' = [due EXCEPT ![r] = "none"]
    /\ UNCHANGED delivered
    /\ UNCHANGED <<provVars, cancelVars, dynVars>>

\* a slip: the cancellation is accepted but the signal is never raised
SignalOnCancel_ignored(c, r) == flag[r]

\* the signal of request r after a cancellation c was handled: raised for
\* the in-flight handler of the request c names
SignalOnCancel(c, r) ==
    IF c.request_id = r /\ InFlight(r) THEN TRUE ELSE flag[r]

\* handle_notification: a cancellation raises the signal of the request it
\* names and nothing else happens; the result is Ok(())
Serve_handle_notification(n) ==
    LET c == TryInto_CancelledNotification(n) IN
    /\ IF "Ok" \in DOMAIN c
       THEN /\ flag' = [r \in ServeIds |-> SignalOnCancel(c.Ok, r)]
            /\ due' = [r \in ServeIds |->
                          IF c.Ok.request_id = r /\ InFlight(r)
                          THEN "pending" ELSE due[r]]
       ELSE UNCHANGED <<flag, due>>
    /\ delivered' = [note |-> n, result |-> Ok(Unit)]
    /\ UNCHANGED handler
    /\ UNCHANGED <<provVars, cancelVars, dynVars>>

\* the suspended handler of request r is resumed and reaches its next
\* suspension point, where it looks at its signal: it stops if the signal
\* is raised, and otherwise suspends again or completes
Resume(r, finish) ==
    /\ InFlight(r)
    /\ handler' = [handler EXCEPT ![r].phase =
                      IF flag[r] THEN "cancelled"
                      ELSE IF finish THEN "done" ELSE "suspended"]
    /\ due' = [due EXCEPT ![r] = IF @ = "pending" THEN "checked" ELSE @]
    /\ UNCHANGED <<flag, delivered>>
    /\ UNCHANGED <<provVars, cancelVars, dynVars>>

NextServe ==
    \/ \E r \in ServeIds : Serve_handle_request(r)
    \/ \E n \in ServedNotifications : Serve_handle_notification(n)
    \/ \E r \in ServeIds, finish \in BOOLEAN : Resume(r, finish)

-----------------------------------------------------------------------------
(* Specifications.                                                         *)

Quiet == CancelIdle /\ DynIdle /\ ServeIdle

\* the conversions alone: no notification yet
InitCancel == InitProvider /\ Quiet

SpecCancel == InitCancel /\ [][NextCancel]_vars

\* a Service of any sample implementation, and the same behind the adapter
InitBoth == InitProvider /\ CancelIdle /\ InitDyn /\ ServeIdle

SpecDyn == InitBoth /\ [][NextDyn]_vars

\* a server-role Service with no handler in flight
InitServe == InitProvider /\ Quiet

SpecServe == InitServe /\ [][NextServe]_vars

Init == InitProvider /\ Quiet

Next ==
    \/ \E t \in Threads : next_request_id(t)
    \/ \E t \in Threads : next_progress_token(t)
    \/ \E t \in Threads : Return(t)

Spec == Init /\ [][Next]_vars

\* a long-lived provider: all but the last few of the first 2^32 calls have
\* been served, none of them in progress; the counter holds the number of
\* calls served; caller 1 made the very first call, of either operation, and
\* still holds the identifier it was handed, which carries the number the
\* counter was constructed with; the steps before are not on record
LateProvider ==
    /\ \E d \in 0..WrapLead : id = U32Minus(u32_MAX, d)
    /\ served = AsNat(id)
    /\ pc = [t \in Threads |-> "idle"]
    /\ tmp = [t \in Threads |-> NoTmp]
    /\ \E o \in Ops :
          returned = [t \in Threads |->
                         IF t = 1 THEN <<Entry(o, Default_id, 0)>> ELSE <<>>]
    /\ order = <<>>
    /\ wraps = 0

\* a provider right after construction, or late in its life
InitLife == (InitProvider \/ LateProvider) /\ Quiet

SpecWrap == InitLife /\ [][Next]_vars

-----------------------------------------------------------------------------
(* Properties of AtomicU32Provider.                                        *)

\* every identifier a caller holds, as <<caller, position>>
Held == {<<t, i>> \in Threads \X (1..(MaxCalls + 1)) : i <= Len(returned[t])}

HeldEntry(h) == returned[h[1]][h[2]]

\* every identifier of the provider that a caller holds
Issued == {HeldEntry(h) : h \in Held}

AllIdle == \A t \in Threads : pc[t] = "idle"

\* C1 as stated: whatever the interleaving of the concurrent callers of one
\* provider, no two Request Identifiers returned are equal and no two
\* Progress Tokens returned are equal.
C1_UniquePerKind ==
    \A g, h \in Held :
        (g # h /\ HeldEntry(g).op = HeldEntry(h).op)
            => HeldEntry(g).value # HeldEntry(h).value

\* C1, amended: whatever the interleaving, no two Request Identifiers and no
\* two Progress Tokens are equal among those of the provider's first 2^32
\* calls, that is, those fetched before the counter has wrapped around.
C1_UniqueBeforeWrap ==
    \A g, h \in Held :
        (/\ g # h
         /\ HeldEntry(g).op = HeldEntry(h).op
         /\ HeldEntry(g).epoch = 0
         /\ HeldEntry(h).epoch = 0)
            => HeldEntry(g).value # HeldEntry(h).value

\* every caller has been handed identifiers, two different callers hold a
\* Request Identifier each and two Progress Tokens have been handed out,
\* all of them fetched before any wraparound
C1_Witness ==
    /\ wraps = 0
    /\ \A t \in Threads : Len(returned[t]) >= 1
    /\ \E g, h \in Held :
          /\ g[1] # h[1]
          /\ HeldEntry(g).op = "next_request_id"
          /\ HeldEntry(h).op = "next_request_id"
    /\ \E g, h \in Held :
          /\ g # h
          /\ HeldEntry(g).op = "next_progress_token"
          /\ HeldEntry(h).op = "next_progress_token"

\* C2 as stated: the k-th call of a provider, of either operation, returns
\* the number k-1, and the numbers returned increase with every call.
C2_KthCallReturnsKMinus1 ==
    /\ served = NatOf(0) => id = U32Of(0)
    /\ \A i \in 1..Len(order) : AsNat(order[i].num) = NatPred(order[i].k)
    /\ \A i, j \in 1..Len(order) :
          i < j => U32Less(order[i].num, order[j].num)

\* C2, amended: a freshly constructed provider's counter is zero; the k-th
\* call, of either operation, returns k-1 modulo 2^32; and each call returns
\* a greater number than the call before it, except the call that follows
\* the one returning u32::MAX.
C2_KthCallReturnsKMinus1Mod ==
    /\ served = NatOf(0) => id = U32Of(0)
    /\ \A i \in 1..Len(order) : order[i].num = AsU32(NatPred(order[i].k))
    /\ \A i \in 1..Len(order) :
          (i < Len(order) /\ order[i].num # u32_MAX)
              => U32Less(order[i].num, order[i + 1].num)

\* the first three calls of a fresh provider, of both operations, have been
\* served
C2_Witness ==
    /\ Len(order) >= 3
    /\ order[1].k = NatOf(1)
    /\ order[1].op = "next_progress_token"
    /\ order[2].op = "next_request_id"
    /\ order[3].op = "next_progress_token"
    /\ order[3].value = ProgressToken(NumberOrString_Number(U32Of(2)))

\* C3: provisioning never fails and never waits: the counter is always a
\* valid u32, every identifier handed out is a well-formed identifier of its
\* operation's kind, a caller can start either operation whatever the other
\* callers are doing, and a caller that has fetched can always return.
C3_NeverFails ==
    /\ IsU32(id)
    /\ \A h \in Held :
          /\ IsU32(HeldEntry(h).num)
          /\ HeldEntry(h).value = Identifier(HeldEntry(h).op, HeldEntry(h).num)
    /\ \A t \in Threads :
          /\ (pc[t] = "idle" /\ Len(order) < MaxCalls)
                => (ENABLED next_request_id(t)) /\ (ENABLED next_progress_token(t))
          /\ pc[t] = "fetched" => ENABLED Return(t)

\* a caller starts a call at u32::MAX while another caller is in mid-call,
\* and identifiers fetched on both sides of the wraparound were returned
C3_Witness ==
    /\ \E t, u \in Threads :
          /\ t # u
          /\ pc[t] = "fetched"
          /\ pc[u] = "idle"
          /\ Len(order) < MaxCalls
          /\ Len(returned[u]) >= 2
    /\ \E h \in Held : HeldEntry(h).num = u32_MAX
    /\ \E h \in Held : HeldEntry(h).num = U32Of(0)

\* C8: wraparound gets no special handling: every call returns the value
\* the counter held before it, the call made at u32::MAX returns u32::MAX
\* and leaves the counter at 0, and the call after it returns 0.
C8_Wraparound ==
    \A k \in 1..Len(order) :
        /\ k > 1 => order[k].num = order[k - 1].after
        /\ order[k].num = u32_MAX =>
              /\ order[k].after = U32Of(0)
              /\ order[k].value = Identifier(order[k].op, u32_MAX)
              /\ k < Len(order) => order[k + 1].num = U32Of(0)
              /\ k = Len(order) => id = U32Of(0)

\* the call at u32::MAX and the call after it have both returned
C8_Witness ==
    /\ \E k \in 1..Len(order) : order[k].num = u32_MAX /\ k < Len(order)
    /\ \E h \in Held : HeldEntry(h).num = u32_MAX
    /\ \E h \in Held : HeldEntry(h).num = U32Of(0)
    /\ wraps = 1

\* C9: a Request Identifier and a Progress Token of one provider can carry
\* the same number; they are then still different identifiers (the wrapper
\* tells them apart), and since both come from the one counter the two were
\* fetched on different sides of a wraparound.
C9_CollideButDistinct ==
    \A e, f \in Issued :
        (e.op = "next_request_id" /\ f.op = "next_progress_token")
            => /\ e.value # f.value
               /\ e.num = f.num => e.epoch # f.epoch

\* a Request Identifier and a Progress Token with the same number exist
C9_Witness ==
    \E e, f \in Issued :
        /\ e.op = "next_request_id"
        /\ f.op = "next_progress_token"
        /\ e.num = f.num

\* C10: after n atomic steps the numbers fetched across both kinds are
\* exactly 0 .. n-1, each once, and the counter is n; once every call has
\* returned, the callers hold exactly these numbers, each once; and each
\* caller's own numbers strictly increase.
C10_ExactlyZeroToNMinus1 ==
    LET n == Len(order) IN
    /\ id = U32Of(n)
    /\ {order[k].num : k \in 1..n} = {U32Of(j) : j \in 0..(n - 1)}
    /\ Cardinality({order[k].num : k \in 1..n}) = n
    /\ AllIdle =>
          /\ Cardinality(Held) = n
          /\ {HeldEntry(h).num : h \in Held} = {U32Of(j) : j \in 0..(n - 1)}
    /\ \A t \in Threads : \A i, j \in 1..Len(returned[t]) :
          i < j => U32Less(returned[t][i].num, returned[t][j].num)

\* all modelled calls have returned, both kinds among them, and one caller
\* made several
C10_Witness ==
    /\ AllIdle
    /\ Len(order) = MaxCalls
    /\ \E t \in Threads : Len(returned[t]) >= 2
    /\ \E h \in Held : HeldEntry(h).op = "next_request_id"
    /\ \E h \in Held : HeldEntry(h).op = "next_progress_token"

-----------------------------------------------------------------------------
(* Properties of the cancellation conversions.                             *)

-----------------------------------------------------------------------------
(* Properties of the DynService adapter.                                   *)

\* C4: through the adapter every handling call has the same outcome and
\* the same effect on the Service as the direct call, get_info gives the
\* same info, and each adapter call makes exactly one call of the wrapped
\* operation, whose future it hands back unchanged inside the box.
C4_AdapterTransparent ==
    /\ erased.st = typed.st
    /\ erased.done = typed.done
    /\ erased.info = typed.info
    /\ erased.calls = typed.calls
    /\ erased.calls = Dispatched(erased)
    /\ Len(erased.pending) = Len(typed.pending)
    /\ \A i \in 1..Len(erased.pending) :
          /\ erased.pending[i] = Box_pin(typed.pending[i])
          /\ Run(erased.impl, erased.st, Inner(erased.pending[i]))
                = Run(typed.impl, typed.st, typed.pending[i])

\* through the adapter one request was answered with a response and another
\* with an error, the info was read, and a boxed future is still pending
C4_Witness ==
    /\ \E i \in 1..Len(erased.done) : "Err" \in DOMAIN erased.done[i]
    /\ \E i \in 1..Len(erased.done) :
          /\ "Ok" \in DOMAIN erased.done[i]
          /\ erased.done[i] # Ok(Unit)
          /\ erased.done[i].Ok.id = NumberOrString_Number(U32Of(1))
    /\ Len(erased.pending) = 1
    /\ "boxed" \in DOMAIN erased.pending[1]
    /\ erased.info # Unit

-----------------------------------------------------------------------------
(* Properties of cooperative cancellation.                                 *)

====
